---- MODULE Spec2Model ----
(***************************************************************************)
(* Course creation (Management_Service/main.py, create_course), the        *)
(* course and schedule_course tables it writes (Management_Service/        *)
(* models.py) and the reminder enqueueing it triggers                      *)
(* (Notification_Service/main.py, send_notification).                      *)
(*                                                                         *)
(* Dates are day numbers and times of day are hours; a schedule candidate  *)
(* is a record [start_date, end_date, start_time, end_time].               *)
(***************************************************************************)
EXTENDS Integers, Sequences, FiniteSets, TLC

\* ------------------------------------------------------------------ bounds

\* longest candidate list given to the resolver in SpecResolver
MaxLen == 3
\* longest schedule_data list of a create_course call in Spec
MaxScheds == 2

\* calendar dates and times of day the resolver inputs are drawn from
Dates == {1, 2}
Times == {1, 2, 3}

\* every schedule candidate over Dates and Times, including candidates whose
\* end_date precedes start_date and whose end_time does not follow start_time
Candidates ==
    [start_date : Dates, end_date : Dates, start_time : Times, end_time : Times]

\* ---------------------------------------------------------------- resolver

ReasonEndDate == "End date is earlier than start date"
ReasonTimeConflict == "Time conflict with an already valid schedule"

\* {**schedule.model_dump(), "reason": reason}
WithReason(schedule, reason) ==
    [start_date |-> schedule.start_date, end_date |-> schedule.end_date,
     start_time |-> schedule.start_time, end_time |-> schedule.end_time,
     reason |-> reason]

\* the date test with the comparison turned round
InvalidDateRangeInverted(schedule) == schedule.end_date > schedule.start_date

\* schedule.end_date < schedule.start_date
InvalidDateRange(schedule) == schedule.end_date < schedule.start_date

\* a conflict test that only looks at where the candidate starts
TimeConflictStartOnly(start_time, end_time, interval) ==
    (start_time >= interval.start_time) /\ (start_time < interval.end_time)

\* a conflict test on closed ranges: touching slots conflict
TimeConflictClosed(start_time, end_time, interval) ==
    (start_time <= interval.end_time) /\ (end_time >= interval.start_time)

\* (start_time < interval["end_time"]) and (end_time > interval["start_time"])
TimeConflict(start_time, end_time, interval) ==
    (start_time < interval.end_time) /\ (end_time > interval.start_time)

\* the scan of occupied_intervals[start_date]
HasConflict(schedule, intervals) ==
    \E k \in 1..Len(intervals) :
        TimeConflict(schedule.start_time, schedule.end_time, intervals[k])

\* if start_date not in occupied_intervals: occupied_intervals[start_date] = []
EnsureKey(occupied, start_date) ==
    IF start_date \in DOMAIN occupied
    THEN occupied
    ELSE [d \in (DOMAIN occupied) \cup {start_date} |->
            IF d = start_date THEN <<>> ELSE occupied[d]]

\* an occupancy that is not kept apart by date: the interval is recorded under
\* every date seen so far
OccupyEveryDate(occupied, schedule) ==
    [d \in DOMAIN occupied |->
        Append(occupied[d], [start_time |-> schedule.start_time,
                             end_time |-> schedule.end_time])]

\* occupied_intervals[start_date].append({"start_time": .., "end_time": ..})
Occupy(occupied, schedule) ==
    [occupied EXCEPT ![schedule.start_date] =
        Append(@, [start_time |-> schedule.start_time,
                   end_time |-> schedule.end_time])]

\* a rejection that forgets to record the candidate
RejectDropped(conflicted, schedule, reason) == conflicted

\* conflicted_schedules.append({**schedule.model_dump(), "reason": ...})
Reject(conflicted, schedule, reason) ==
    Append(conflicted, WithReason(schedule, reason))

\* the loop body of "for schedule in schedule_data", from candidate i on
RECURSIVE ResolveFrom(_, _, _, _, _)
ResolveFrom(schedule_data, i, valid, conflicted, occupied) ==
    IF i > Len(schedule_data)
    THEN [valid_schedules |-> valid,
          conflicted_schedules |-> conflicted,
          occupied_intervals |-> occupied]
    ELSE LET schedule == schedule_data[i] IN
         IF InvalidDateRange(schedule)
         THEN ResolveFrom(schedule_data, i + 1, valid,
                          Reject(conflicted, schedule, ReasonEndDate), occupied)
         ELSE LET occ == EnsureKey(occupied, schedule.start_date) IN
              IF HasConflict(schedule, occ[schedule.start_date])
              THEN ResolveFrom(schedule_data, i + 1, valid,
                               Reject(conflicted, schedule, ReasonTimeConflict),
                               occ)
              ELSE ResolveFrom(schedule_data, i + 1, Append(valid, schedule),
                               conflicted, Occupy(occ, schedule))

\* valid_schedules = [], conflicted_schedules = [], occupied_intervals = {}
EmptyOccupied == [d \in {} |-> <<>>]

\* a loop that starts at the second candidate
ResolveSkipFirst(schedule_data) ==
    ResolveFrom(schedule_data, 2, <<>>, <<>>, EmptyOccupied)

Resolve(schedule_data) == ResolveFrom(schedule_data, 1, <<>>, <<>>, EmptyOccupied)

NoResult ==
    [valid_schedules |-> <<>>, conflicted_schedules |-> <<>>,
     occupied_intervals |-> EmptyOccupied]

\* ------------------------------------------------------------- the service

\* concurrent create_course requests, and the course names they may carry
Calls == {1, 2}
Names == {"Java", "Go"}
NoName == "-"

\* schedule candidates of the requests: a plain slot that starts at midnight
\* (hour 0), a zero-length slot that starts where the plain one ends, and a
\* candidate whose end_date precedes its start_date
SlotA == [start_date |-> 2, end_date |-> 2, start_time |-> 0, end_time |-> 3]
SlotZ == [start_date |-> 2, end_date |-> 3, start_time |-> 3, end_time |-> 3]
SlotI == [start_date |-> 2, end_date |-> 1, start_time |-> 0, end_time |-> 3]
RequestCandidates == {SlotA, SlotZ, SlotI}
ScheduleLists == UNION {[1..n -> RequestCandidates] : n \in 0..MaxScheds}

VARIABLES
    call,             \* per request: position in create_course and its locals
    course,           \* committed rows of table course
    schedule_course,  \* committed rows of table schedule_course
    session,          \* per request: rows inserted in its open transaction
    course_id_seq,    \* autoincrement of course.id
    schedule_id_seq,  \* autoincrement of schedule_course.id
    task_queue,       \* jobs sent to celery by send_notification
    r_candidates,     \* resolver on its own: the candidate list
    r_result,         \* resolver on its own: its output
    r_done,           \* resolver on its own: whether it was applied
    enroll_course,    \* committed rows of table enroll_course
    enroll_id_seq,    \* autoincrement of enroll_course.id
    enroll_deleted,   \* history: ids of the rows delete_enroll_for_user removed
    job,              \* the reminder worker: the job it runs and its locals
    confirm           \* per confirm callback of the bot: position and locals

vars == <<call, course, schedule_course, session, course_id_seq,
          schedule_id_seq, task_queue, r_candidates, r_result, r_done,
          enroll_course, enroll_id_seq, enroll_deleted, job, confirm>>

svars == <<call, course, schedule_course, session, course_id_seq,
           schedule_id_seq, task_queue>>

rvars == <<r_candidates, r_result, r_done>>

wvars == <<enroll_course, enroll_id_seq, enroll_deleted, job, confirm>>

\* ---------------------------------------------------------------- responses

MsgProcessed == "Course and schedules processed successfully"
MsgSent == "Sent successfully"
MsgNoneSent == "No notifications sent"
DetailDuplicate == "Course with this name already exists"
DetailNoValid == "No valid schedules provided"
DetailNotify == "Failed to send notifications"
DetailUnreachable == "notification service unreachable"
DetailStorage == "storage failure"
DetailUniqueName == "course.name is not unique"
DetailUniqueTime == "unique_course_time"

EmptyBody ==
    [message |-> "", valid_schedules |-> <<>>, conflicted_schedules |-> <<>>,
     schedules |-> <<>>, notifications |-> "", course_id |-> 0,
     schedule_ids |-> <<>>]

NoResponse == [status_code |-> 0, detail |-> <<>>, body |-> EmptyBody]

\* raise HTTPException(status_code=..., detail=...)
HTTPException(status_code, detail) ==
    [type |-> "HTTPException", status_code |-> status_code, detail |-> detail]

\* sqlalchemy.exc.IntegrityError raised by an insert
IntegrityError(detail) ==
    [type |-> "IntegrityError", status_code |-> 0, detail |-> detail]

\* any other exception raised by the store or by the http client
OtherException(detail) ==
    [type |-> "Exception", status_code |-> 0, detail |-> detail]

\* except IntegrityError -> 400; except Exception -> 500. HTTPException is an
\* Exception and not an IntegrityError, so the second handler takes it too.
ExceptHandlers(exc) ==
    IF exc.type = "IntegrityError"
    THEN [status_code |-> 400, detail |-> <<"Integrity error", exc.detail>>,
          body |-> EmptyBody]
    ELSE [status_code |-> 500, detail |-> <<"Unexpected error", exc.detail>>,
          body |-> EmptyBody]

\* a response that names only the first inserted schedule
SuccessResponseFirstId(l) ==
    [status_code |-> 200, detail |-> <<>>,
     body |-> [message |-> MsgProcessed,
               valid_schedules |-> l.valid_schedules,
               conflicted_schedules |-> l.conflicted_schedules,
               schedules |-> l.schedules,
               notifications |-> IF l.inserted_schedule_ids # <<>>
                                 THEN MsgSent ELSE MsgNoneSent,
               course_id |-> l.course_id,
               schedule_ids |-> SubSeq(l.inserted_schedule_ids, 1, 1)]]

\* the dict returned after the transaction block
SuccessResponse(l) ==
    [status_code |-> 200, detail |-> <<>>,
     body |-> [message |-> MsgProcessed,
               valid_schedules |-> l.valid_schedules,
               conflicted_schedules |-> l.conflicted_schedules,
               schedules |-> l.schedules,
               notifications |-> IF l.inserted_schedule_ids # <<>>
                                 THEN MsgSent ELSE MsgNoneSent,
               course_id |-> l.course_id,
               schedule_ids |-> l.inserted_schedule_ids]]

\* ----------------------------------------------------------------- the store

EmptySession == [course |-> {}, schedule_course |-> {}]

\* a name check that never finds the course
ExistsByNameNever(name) == FALSE

\* select(course).filter(course.c.name == course_data.name), scalar_one_or_none
ExistsByName(name) == \E row \in course : row.name = name

\* a name column without the unique constraint
NameTakenNever(name) == FALSE

\* Column("name", String, unique=True): a committed row holds the name
NameTaken(name) == \E row \in course : row.name = name

\* the unique index makes an insert wait for an open transaction that has
\* inserted the same name, until that transaction commits or rolls back
NameLocked(c, name) ==
    \E o \in Calls \ {c} : \E row \in session[o].course : row.name = name

\* a schedule table without the unique constraint
UniqueCourseTimeNever(c, row) == FALSE

\* UniqueConstraint("course_id", "start_date", "start_time")
UniqueCourseTime(c, row) ==
    \E r \in schedule_course \cup session[c].schedule_course :
        /\ r.course_id = row.course_id
        /\ r.start_date = row.start_date
        /\ r.start_time = row.start_time

\* a transaction block that keeps the inserted rows when it is left by an
\* exception
RollbackKeepsRows(c) ==
    [course |-> course \cup session[c].course,
     schedule_course |-> schedule_course \cup session[c].schedule_course]

\* async with session.begin(), left by an exception: the tables stay as they are
Rollback(c) == [course |-> course, schedule_course |-> schedule_course]

\* async with session.begin(), left normally: the inserted rows are committed
CommitRows(c) ==
    [course |-> course \cup session[c].course,
     schedule_course |-> schedule_course \cup session[c].schedule_course]

\* ------------------------------------------------------------ notifications

\* timedelta(hours=1) in send_notification
ReminderLeadHours == 1
\* the "+05:00" appended to date_time.isoformat()
UtcOffsetHours == 5

\* f"{datetime.combine(start_date, start_time).isoformat()}+05:00"
ScheduleTimeStr(schedule) ==
    <<schedule.start_date, "T", schedule.start_time, "+", UtcOffsetHours>>

\* datetime.fromisoformat(time)
FromIsoFormat(str) == [date |-> str[1], hour |-> str[3], utcoffset |-> str[5]]

\* a lead time added instead of subtracted
PlusLead(dt) ==
    IF dt.hour + ReminderLeadHours <= 23
    THEN [dt EXCEPT !.hour = dt.hour + ReminderLeadHours]
    ELSE [dt EXCEPT !.date = dt.date + 1,
                    !.hour = dt.hour + ReminderLeadHours - 24]

\* datetime - timedelta(hours=1)
MinusLead(dt) ==
    IF dt.hour - ReminderLeadHours >= 0
    THEN [dt EXCEPT !.hour = dt.hour - ReminderLeadHours]
    ELSE [dt EXCEPT !.date = dt.date - 1,
                    !.hour = dt.hour - ReminderLeadHours + 24]

\* celery_app.send_task('tasks.send_message_task', args=[..], eta=eta_time)
Job(schedule_id, course_id, eta_time) ==
    [task |-> "tasks.send_message_task", args |-> <<schedule_id, course_id>>,
     eta |-> eta_time]

Min(a, b) == IF a < b THEN a ELSE b

\* a scheduler that gives every job the fire time of the first schedule
JobsSentFirstTime(course_id, schedule_ids, schedule_time_str, sent) ==
    [k \in 1..Min(sent, Min(Len(schedule_ids), Len(schedule_time_str))) |->
        Job(schedule_ids[k], course_id,
            MinusLead(FromIsoFormat(schedule_time_str[1])))]

\* the jobs send_notification sends before it returns or send_task raises:
\* the first `sent` pairs of zip(schedule_time, schedule_ids)
JobsSent(course_id, schedule_ids, schedule_time_str, sent) ==
    [k \in 1..Min(sent, Min(Len(schedule_ids), Len(schedule_time_str))) |->
        Job(schedule_ids[k], course_id,
            MinusLead(FromIsoFormat(schedule_time_str[k])))]

\* what the POST to /send_notification/ can come to: the service cannot be
\* reached, or it sends the first `sent` jobs and answers 200 when all were sent
\* and 500 when send_task raised
NotifyOutcomes(n) ==
    {[reached |-> FALSE, sent |-> 0]} \cup {[reached |-> TRUE, sent |-> k] : k \in 0..n}

StatusOf(outcome, n) == IF outcome.sent = n THEN 200 ELSE 500

\* notification_response before the POST, and what the caller holds after it
\* (status_code 0: the POST raised, there is no response)
NoNotification == [posted |-> FALSE, status_code |-> 0]
NotificationResponse(outcome, n) ==
    [posted |-> TRUE,
     status_code |-> IF outcome.reached THEN StatusOf(outcome, n) ELSE 0]

\* a caller that ignores the status of the notification response
NotifyFailsOnlyUnreachable(outcome, n) == ~outcome.reached

\* the POST raises, or notification_response.status_code != 200
NotifyFails(outcome, n) == ~outcome.reached \/ StatusOf(outcome, n) # 200

\* ---------------------------------------------------------- reminder worker

\* telegram users, and the number of enrollments ever made
Users == {1, 2}
MaxEnroll == 2

\* the ids a request may name: those of the rows and one that no row has
CourseIds == {1, 2}
ScheduleIds == {1, 2, 3}

\* what the worker's try block can raise
ErrRequest == "RequestError"
ErrIndex == "IndexError"
ErrSend == "TelegramAPIError"
NoError == ""

\* the worker between two jobs
NoJob ==
    [pc |-> "idle", schedule_id |-> 0, course_id |-> 0, gone_at_start |-> FALSE,
     course_name |-> NoName, users_asked |-> FALSE, users |-> <<>>,
     attempts |-> <<>>, delivered |-> <<>>, logged |-> NoError,
     escaped |-> FALSE, result |-> <<>>]

\* get_course_by_id: select(course).where(course.c.id == course_id), as a list
GetCourseById(course_id) ==
    IF \E row \in course : row.id = course_id
    THEN <<CHOOSE row \in course : row.id = course_id>>
    ELSE <<>>

\* a lookup that falls back to a placeholder name when the list is empty
CourseNameOrDefault(rows) ==
    [raised |-> FALSE, name |-> IF rows = <<>> THEN NoName ELSE rows[1].name]

\* response.json()[0]["name"]: IndexError on an empty list
CourseName(rows) ==
    [raised |-> rows = <<>>, name |-> IF rows = <<>> THEN NoName ELSE rows[1].name]

\* get_users_for_schedule: select(enroll_course.c.user_id).where(schedule_id ==
\* ..), one entry per row, in the order the database returns the rows
GetUsersForSchedule(schedule_id) ==
    LET rows == {row \in enroll_course : row.schedule_id = schedule_id}
        n == Cardinality(rows)
    IN  {[k \in 1..n |-> f[k].user_id] :
            f \in {g \in [1..n -> rows] :
                      \A i, j \in 1..n : g[i] = g[j] => i = j}}

\* the f-string of the message ("the lesson of course {course_name} starts in
\* exactly one hour", in Russian)
Message(course_name) == <<"lesson starts in one hour, course:", course_name>>

\* the task's return values
MsgTaskSent(schedule_id) == <<"Message sent to", schedule_id>>
MsgTaskFailed(schedule_id, e) == <<"Failed to send message to", schedule_id, e>>

\* the end of a job. send_notification_to_user: "except Exception as e:
\* logging.error(..)" logs e and returns, so nothing reaches the task's own
\* except clause; the task returns its success string
Finish(j, e) ==
    [j EXCEPT !.pc = "done", !.logged = e, !.escaped = FALSE,
              !.result = MsgTaskSent(j.schedule_id)]

\* ------------------------------------------------- the bot's confirmation

\* confirm callbacks handled at the same time
Handlers == {1, 2}

\* the day of the requests: today = datetime.now().date() of get_enroll
EnrollDay == 0

\* what the bot tells the user (in Russian: "you are already enrolled in this
\* course", "you are enrolled ..", "an error occurred while enrolling")
AnswerAlready == "already enrolled in this course"
AnswerEnrolled == "enrolled in the course"
AnswerError == "error while enrolling"

\* a callback that has not arrived
IdleConfirm ==
    [pc |-> "idle", user_id |-> 0, course_id |-> 0, schedule_id |-> 0,
     fetched |-> FALSE, enrolls |-> {}, answer |-> ""]

\* any(enroll["course_id"] == course_id for enroll in enrolls)
AlreadyEnrolled(enrolls, course_id) == \E enroll \in enrolls : enroll.course_id = course_id

\* ------------------------------------------------------------ create_course

IdleCall ==
    [pc |-> "idle", course_data |-> [name |-> NoName], schedule_data |-> <<>>,
     valid_schedules |-> <<>>, conflicted_schedules |-> <<>>,
     occupied_intervals |-> EmptyOccupied, course_id |-> 0,
     inserted_schedule_ids |-> <<>>, schedules |-> <<>>,
     resolved |-> FALSE, notification_response |-> NoNotification,
     response |-> NoResponse]

Init ==
    /\ call = [c \in Calls |-> IdleCall]
    /\ course = {}
    /\ schedule_course = {}
    /\ session = [c \in Calls |-> EmptySession]
    /\ course_id_seq = 0
    /\ schedule_id_seq = 0
    /\ task_queue = <<>>
    /\ r_candidates = <<>>
    /\ r_result = NoResult
    /\ r_done = FALSE
    /\ enroll_course = {}
    /\ enroll_id_seq = 0
    /\ enroll_deleted = {}
    /\ job = NoJob
    /\ confirm = [h \in Handlers |-> IdleConfirm]

\* a call that goes on without a valid schedule
NoValidSchedulesNever(valid_schedules) == FALSE

\* if not valid_schedules
NoValidSchedules(valid_schedules) == valid_schedules = <<>>

\* an exception leaves the transaction block and reaches the except clauses:
\* the call ends with the error response
Raise(c, l, exc) ==
    /\ call' = [call EXCEPT ![c] =
                  [l EXCEPT !.pc = "done", !.response = ExceptHandlers(exc)]]
    /\ course' = Rollback(c).course
    /\ schedule_course' = Rollback(c).schedule_course
    /\ session' = [session EXCEPT ![c] = EmptySession]

\* the request arrives; the name check and the conflict resolution run up to
\* the insert of the course
CheckName(c) ==
    /\ call[c].pc = "idle"
    /\ \E name \in Names, schedule_data \in ScheduleLists :
        LET l0 == [call[c] EXCEPT !.course_data = [name |-> name],
                                  !.schedule_data = schedule_data]
            r == Resolve(schedule_data)
            l1 == [l0 EXCEPT !.resolved = TRUE,
                             !.valid_schedules = r.valid_schedules,
                             !.conflicted_schedules = r.conflicted_schedules,
                             !.occupied_intervals = r.occupied_intervals]
        IN  \/ Raise(c, l0, OtherException(DetailStorage))
            \/ /\ ExistsByName(name)
               /\ Raise(c, l0, HTTPException(400, DetailDuplicate))
            \/ /\ ~ExistsByName(name)
               /\ IF NoValidSchedules(r.valid_schedules)
                  THEN Raise(c, l1, HTTPException(400, DetailNoValid))
                  ELSE /\ call' = [call EXCEPT ![c] =
                                     [l1 EXCEPT !.pc = "insert_course"]]
                       /\ UNCHANGED <<course, schedule_course, session>>
    /\ UNCHANGED <<course_id_seq, schedule_id_seq, task_queue, rvars, wvars>>

\* insert(course).values(..).returning(course.c.id)
InsertCourse(c) ==
    /\ call[c].pc = "insert_course"
    /\ LET l == call[c]
           name == l.course_data.name
       IN  \/ /\ Raise(c, l, OtherException(DetailStorage))
              /\ UNCHANGED course_id_seq
           \/ /\ ~NameLocked(c, name)
              /\ course_id_seq' = course_id_seq + 1
              /\ IF NameTaken(name)
                 THEN Raise(c, l, IntegrityError(DetailUniqueName))
                 ELSE /\ call' = [call EXCEPT ![c] =
                                    [l EXCEPT !.course_id = course_id_seq + 1,
                                              !.pc = IF l.valid_schedules = <<>>
                                                     THEN "notify"
                                                     ELSE "insert_schedule"]]
                      /\ session' = [session EXCEPT ![c].course =
                                       {[id |-> course_id_seq + 1, name |-> name]}]
                      /\ UNCHANGED <<course, schedule_course>>
    /\ UNCHANGED <<schedule_id_seq, task_queue, rvars, wvars>>

\* schedule["course_id"] = course_id, the row of insert(schedule_course)
ScheduleRow(id, course_id, schedule) ==
    [id |-> id, course_id |-> course_id,
     start_date |-> schedule.start_date, end_date |-> schedule.end_date,
     start_time |-> schedule.start_time, end_time |-> schedule.end_time]

\* one turn of "for schedule in valid_schedules"
InsertSchedule(c) ==
    /\ call[c].pc = "insert_schedule"
    /\ LET l == call[c]
           i == Len(l.inserted_schedule_ids) + 1
           schedule == l.valid_schedules[i]
           row == ScheduleRow(schedule_id_seq + 1, l.course_id, schedule)
       IN  \/ /\ Raise(c, l, OtherException(DetailStorage))
              /\ UNCHANGED schedule_id_seq
           \/ /\ schedule_id_seq' = schedule_id_seq + 1
              /\ IF UniqueCourseTime(c, row)
                 THEN Raise(c, l, IntegrityError(DetailUniqueTime))
                 ELSE /\ call' = [call EXCEPT ![c] =
                            [l EXCEPT
                               !.inserted_schedule_ids = Append(@, row.id),
                               !.schedules = Append(@, ScheduleTimeStr(schedule)),
                               !.pc = IF i = Len(l.valid_schedules)
                                      THEN "notify" ELSE "insert_schedule"]]
                      /\ session' = [session EXCEPT ![c].schedule_course =
                                       @ \cup {row}]
                      /\ UNCHANGED <<course, schedule_course>>
    /\ UNCHANGED <<course_id_seq, task_queue, rvars, wvars>>

\* if inserted_schedule_ids: POST /send_notification/, handled by
\* send_notification of the notification service
Notify(c) ==
    /\ call[c].pc = "notify"
    /\ LET l == call[c]
           n == Len(l.inserted_schedule_ids)
       IN  IF l.inserted_schedule_ids = <<>>
           THEN /\ call' = [call EXCEPT ![c].pc = "commit"]
                /\ UNCHANGED <<course, schedule_course, session, task_queue>>
           ELSE \E outcome \in NotifyOutcomes(n) :
                /\ task_queue' = task_queue \o
                      JobsSent(l.course_id, l.inserted_schedule_ids,
                               l.schedules, outcome.sent)
                /\ IF NotifyFails(outcome, n)
                   THEN Raise(c, [l EXCEPT !.notification_response =
                                              NotificationResponse(outcome, n)],
                              IF outcome.reached
                              THEN HTTPException(500, DetailNotify)
                              ELSE OtherException(DetailUnreachable))
                   ELSE /\ call' = [call EXCEPT ![c] =
                                      [l EXCEPT !.notification_response =
                                                    NotificationResponse(outcome, n),
                                                !.pc = "commit"]]
                        /\ UNCHANGED <<course, schedule_course, session>>
    /\ UNCHANGED <<course_id_seq, schedule_id_seq, rvars, wvars>>

\* the end of "async with session.begin()" and the return
Commit(c) ==
    /\ call[c].pc = "commit"
    /\ \/ Raise(c, call[c], OtherException(DetailStorage))
       \/ /\ course' = CommitRows(c).course
          /\ schedule_course' = CommitRows(c).schedule_course
          /\ session' = [session EXCEPT ![c] = EmptySession]
          /\ call' = [call EXCEPT ![c] =
                        [@ EXCEPT !.pc = "done",
                                  !.response = SuccessResponse(call[c])]]
    /\ UNCHANGED <<course_id_seq, schedule_id_seq, task_queue, rvars, wvars>>

Next ==
    \E c \in Calls :
        \/ CheckName(c)
        \/ InsertCourse(c)
        \/ InsertSchedule(c)
        \/ Notify(c)
        \/ Commit(c)

Spec == Init /\ [][Next]_vars

\* ------------------------------------------------- the resolver on its own

\* the candidate lists of the resolver: every list of at most MaxLen candidates
InitResolver ==
    /\ call = [c \in Calls |-> IdleCall]
    /\ course = {}
    /\ schedule_course = {}
    /\ session = [c \in Calls |-> EmptySession]
    /\ course_id_seq = 0
    /\ schedule_id_seq = 0
    /\ task_queue = <<>>
    /\ \E n \in 0..MaxLen : r_candidates \in [1..n -> Candidates]
    /\ r_result = NoResult
    /\ r_done = FALSE
    /\ enroll_course = {}
    /\ enroll_id_seq = 0
    /\ enroll_deleted = {}
    /\ job = NoJob
    /\ confirm = [h \in Handlers |-> IdleConfirm]

\* lines 106-150 of create_course applied to r_candidates
ApplyResolver ==
    /\ ~r_done
    /\ r_result' = Resolve(r_candidates)
    /\ r_done' = TRUE
    /\ UNCHANGED <<r_candidates, svars, wvars>>

NextResolver == ApplyResolver

SpecResolver == InitResolver /\ [][NextResolver]_vars

\* ------------------------------------------- reminders of a created course

\* a course with two schedules was created and its two jobs are queued
InitWorker ==
    /\ call = [c \in Calls |-> IdleCall]
    /\ course = {[id |-> 1, name |-> "Java"]}
    /\ schedule_course = {ScheduleRow(1, 1, SlotA), ScheduleRow(2, 1, SlotZ)}
    /\ session = [c \in Calls |-> EmptySession]
    /\ course_id_seq = 1
    /\ schedule_id_seq = 2
    /\ task_queue = JobsSent(1, <<1, 2>>,
                             <<ScheduleTimeStr(SlotA), ScheduleTimeStr(SlotZ)>>, 2)
    /\ r_candidates = <<>>
    /\ r_result = NoResult
    /\ r_done = FALSE
    /\ enroll_course = {}
    /\ enroll_id_seq = 0
    /\ enroll_deleted = {}
    /\ job = NoJob
    /\ confirm = [h \in Handlers |-> IdleConfirm]

\* the messages of enroll_user (in Russian: "the user was enrolled in the
\* course", "error while enrolling in the course")
MsgEnrolled == "user enrolled in the course"
DetailEnroll == "error while enrolling in the course"

\* the foreign keys of enroll_course: the course and the schedule exist
EnrollReferencesExist(course_id, schedule_id) ==
    /\ \E row \in course : row.id = course_id
    /\ \E row \in schedule_course : row.id = schedule_id

\* what enroll_user answers: the dict with the new enroll_id, or the
\* HTTPException(500) of its except clause
EnrollResponse(user_id, course_id, schedule_id) ==
    IF EnrollReferencesExist(course_id, schedule_id)
    THEN [status_code |-> 200, message |-> MsgEnrolled,
          enroll_id |-> enroll_id_seq + 1]
    ELSE [status_code |-> 500, message |-> DetailEnroll, enroll_id |-> 0]

\* a query without the user_id condition
GetEnrollAnyUser(user_id, today) ==
    {e \in enroll_course :
        \E s \in schedule_course : s.id = e.schedule_id /\ s.end_date > today}

\* get_enroll: select(enroll_course).join(schedule_course, schedule_id == id)
\* .where(user_id == .. and end_date > today)
GetEnroll(user_id, today) ==
    {e \in enroll_course :
        /\ e.user_id = user_id
        /\ \E s \in schedule_course : s.id = e.schedule_id /\ s.end_date > today}

\* enroll_user: insert(enroll_course).values(..).returning(id), commit. The
\* foreign keys of course_id and schedule_id make the insert fail (answer 500)
\* when the course or the schedule does not exist
EnrollInsert(user_id, course_id, schedule_id) ==
    /\ enroll_id_seq < MaxEnroll
    /\ enroll_id_seq' = enroll_id_seq + 1
    /\ IF EnrollReferencesExist(course_id, schedule_id)
       THEN enroll_course' = enroll_course \cup
               {[id |-> enroll_id_seq + 1, user_id |-> user_id,
                 course_id |-> course_id, schedule_id |-> schedule_id]}
       ELSE UNCHANGED enroll_course

\* POST /enroll
EnrollUser(user_id, course_id, schedule_id) ==
    /\ EnrollInsert(user_id, course_id, schedule_id)
    /\ UNCHANGED <<svars, rvars, enroll_deleted, job, confirm>>

\* a delete without its where clause
DeleteEnrollEvery(enroll_id) ==
    /\ enroll_course' = {}
    /\ enroll_deleted' = enroll_deleted \cup {row.id : row \in enroll_course}
    /\ UNCHANGED <<svars, rvars, enroll_id_seq, job, confirm>>

\* delete_enroll_for_user: delete(enroll_course).where(id == enroll_id), commit
DeleteEnroll(enroll_id) ==
    /\ enroll_course' = {row \in enroll_course : row.id # enroll_id}
    /\ enroll_deleted' = enroll_deleted \cup
          {row.id : row \in {r \in enroll_course : r.id = enroll_id}}
    /\ UNCHANGED <<svars, rvars, enroll_id_seq, job, confirm>>

\* an enrollment table without foreign keys
DeleteRestrictedNever(course_id) == FALSE

\* the foreign keys of enroll_course have no ON DELETE rule: a course, or a
\* schedule of it, that an enrollment refers to cannot be deleted
DeleteRestricted(course_id) ==
    \E e \in enroll_course :
        \/ e.course_id = course_id
        \/ \E row \in schedule_course :
              row.course_id = course_id /\ row.id = e.schedule_id

\* what delete_course answers: null with status 200, or 500 for the
\* IntegrityError that nothing in the handler catches
DeleteCourseResponse(course_id) ==
    IF DeleteRestricted(course_id) THEN 500 ELSE 200

\* a delete without its where clause
DeleteCourseEvery(course_id) ==
    /\ IF \E id \in CourseIds : DeleteRestricted(id)
       THEN UNCHANGED <<course, schedule_course>>
       ELSE course' = {} /\ schedule_course' = {}
    /\ UNCHANGED <<call, session, course_id_seq, schedule_id_seq, task_queue,
                   rvars, wvars>>

\* delete_course: delete(course).where(course.c.id == course_id), commit. The
\* schedules go with the course (ondelete="CASCADE"); the queued jobs stay
DeleteCourse(course_id) ==
    /\ IF DeleteRestricted(course_id)
       THEN UNCHANGED <<course, schedule_course>>
       ELSE /\ course' = {row \in course : row.id # course_id}
            /\ schedule_course' =
                  {row \in schedule_course : row.course_id # course_id}
    /\ UNCHANGED <<call, session, course_id_seq, schedule_id_seq, task_queue,
                   rvars, wvars>>

\* the worker receives a queued job: send_notification(schedule_id, course_id)
TakeJob ==
    /\ job.pc \in {"idle", "done"}
    /\ \E k \in 1..Len(task_queue) :
          /\ job' = [NoJob EXCEPT
                        !.pc = "course",
                        !.schedule_id = task_queue[k].args[1],
                        !.course_id = task_queue[k].args[2],
                        !.gone_at_start =
                            ~\E row \in course : row.id = task_queue[k].args[2]]
          /\ task_queue' = [i \in 1..(Len(task_queue) - 1) |->
                              IF i < k THEN task_queue[i] ELSE task_queue[i + 1]]
    /\ UNCHANGED <<call, course, schedule_course, session, course_id_seq,
                   schedule_id_seq, rvars, enroll_course, enroll_id_seq,
                   enroll_deleted, confirm>>

\* GET /courses/{course_id} and course_name = response.json()[0]["name"]
LookupCourse ==
    /\ job.pc = "course"
    /\ \/ job' = Finish(job, ErrRequest)
       \/ LET found == CourseName(GetCourseById(job.course_id))
          IN  IF found.raised
              THEN job' = Finish(job, ErrIndex)
              ELSE job' = [job EXCEPT !.course_name = found.name,
                                      !.pc = "users"]
    /\ UNCHANGED <<svars, rvars, enroll_course, enroll_id_seq, enroll_deleted,
                   confirm>>

\* GET /enroll/{schedule_id} and users = response.json()["users"]
LookupUsers ==
    /\ job.pc = "users"
    /\ \/ job' = Finish([job EXCEPT !.users_asked = TRUE], ErrRequest)
       \/ \E users \in GetUsersForSchedule(job.schedule_id) :
             job' = [job EXCEPT !.users_asked = TRUE, !.users = users,
                                !.pc = "deliver"]
    /\ UNCHANGED <<svars, rvars, enroll_course, enroll_id_seq, enroll_deleted,
                   confirm>>

\* one turn of "for user in users: await bot.send_message(user, message)",
\* inside the one try block of send_notification_to_user
Deliver ==
    /\ job.pc = "deliver"
    /\ IF Len(job.attempts) = Len(job.users)
       THEN job' = Finish(job, NoError)
       ELSE LET user == job.users[Len(job.attempts) + 1]
            IN  \/ job' = [job EXCEPT
                             !.attempts = Append(@, user),
                             !.delivered =
                                 Append(@, <<user, Message(job.course_name)>>)]
                \/ job' = Finish([job EXCEPT !.attempts = Append(@, user)],
                                 ErrSend)
    /\ UNCHANGED <<svars, rvars, enroll_course, enroll_id_seq, enroll_deleted,
                   confirm>>

WorkerStep == LookupCourse \/ LookupUsers \/ Deliver

NextWorker ==
    \/ \E user_id \in Users, course_id \in CourseIds, schedule_id \in ScheduleIds :
          EnrollUser(user_id, course_id, schedule_id)
    \/ \E enroll_id \in 1..MaxEnroll : DeleteEnroll(enroll_id)
    \/ \E course_id \in CourseIds : DeleteCourse(course_id)
    \/ TakeJob
    \/ LookupCourse
    \/ LookupUsers
    \/ Deliver

SpecWorker == InitWorker /\ [][NextWorker]_vars

\* a started job goes on: the requests of the worker have timeouts
SpecWorkerLive == SpecWorker /\ WF_vars(WorkerStep)

\* -------------------------------------- courses, schedules and enrollments

\* one course with two schedules exists; its reminders are queued
InitStore == InitWorker

\* one more create_course request, and the requests to enroll_user,
\* delete_enroll_for_user and delete_course
NextStore ==
    \/ CheckName(1)
    \/ InsertCourse(1)
    \/ InsertSchedule(1)
    \/ Notify(1)
    \/ Commit(1)
    \/ \E user_id \in Users, course_id \in CourseIds, schedule_id \in ScheduleIds :
          EnrollUser(user_id, course_id, schedule_id)
    \/ \E enroll_id \in 1..MaxEnroll : DeleteEnroll(enroll_id)
    \/ \E course_id \in CourseIds : DeleteCourse(course_id)

SpecStore == InitStore /\ [][NextStore]_vars

\* ------------------------------------------------------ confirm callbacks

InitBot == InitWorker

\* finalize_enrollment up to its first await: the callback data is split and
\* enrolls = await fetch_data_from_api(/enroll, user_id), which is the list of
\* get_enroll, or {} when the request fails
ConfirmFetch(h, user_id, course_id, schedule_id) ==
    /\ confirm[h].pc = "idle"
    /\ \E fetched \in BOOLEAN :
          confirm' = [confirm EXCEPT ![h] =
                        [pc |-> "decide", user_id |-> user_id,
                         course_id |-> course_id, schedule_id |-> schedule_id,
                         fetched |-> fetched,
                         enrolls |-> IF fetched
                                     THEN GetEnroll(user_id, EnrollDay) ELSE {},
                         answer |-> ""]]
    /\ UNCHANGED <<svars, rvars, enroll_course, enroll_id_seq, enroll_deleted,
                   job>>

\* the rest of finalize_enrollment: the duplicate check on the fetched list,
\* then POST /enroll and the answer to the user
ConfirmEnroll(h) ==
    /\ confirm[h].pc = "decide"
    /\ LET f == confirm[h] IN
       IF AlreadyEnrolled(f.enrolls, f.course_id)
       THEN /\ confirm' = [confirm EXCEPT ![h].pc = "done",
                                          ![h].answer = AnswerAlready]
            /\ UNCHANGED <<enroll_course, enroll_id_seq>>
       ELSE /\ EnrollInsert(f.user_id, f.course_id, f.schedule_id)
            /\ confirm' = [confirm EXCEPT
                  ![h].pc = "done",
                  ![h].answer =
                      IF EnrollResponse(f.user_id, f.course_id,
                                        f.schedule_id).status_code = 200
                      THEN AnswerEnrolled ELSE AnswerError]
    /\ UNCHANGED <<svars, rvars, enroll_deleted, job>>

NextBot ==
    \E h \in Handlers :
        \/ \E user_id \in Users, course_id \in CourseIds,
              schedule_id \in ScheduleIds :
              ConfirmFetch(h, user_id, course_id, schedule_id)
        \/ ConfirmEnroll(h)

SpecBot == InitBot /\ [][NextBot]_vars

\* ------------------------------------------------------------------ claims

\* how often x occurs in seq
Count(x, seq) == Cardinality({k \in 1..Len(seq) : seq[k] = x})

\* a conflicted entry without its reason
StripReason(e) ==
    [start_date |-> e.start_date, end_date |-> e.end_date,
     start_time |-> e.start_time, end_time |-> e.end_time]

\* the half-open ranges [start_time, end_time) of a and b share an hour
RangesOverlap(a, b) ==
    \E t \in a.start_time..(a.end_time - 1) :
        b.start_time <= t /\ t < b.end_time

\* the detail of the exception behind an error response
Cause(c) ==
    IF Len(call[c].response.detail) >= 2 THEN call[c].response.detail[2] ELSE ""

\* the rows a call has inserted are among the committed rows
CoursePersisted(c) == \E row \in course : row.id = call[c].course_id
SchedulesPersisted(c) ==
    \E row \in schedule_course : row.course_id = call[c].course_id

\* C1: no two schedules of the resolver's valid list that share a start_date
\* have overlapping half-open time ranges [start_time, end_time).
C1_ValidNeverOverlap ==
    r_done =>
        \A i, j \in 1..Len(r_result.valid_schedules) :
            (i < j /\ r_result.valid_schedules[i].start_date
                        = r_result.valid_schedules[j].start_date)
            => ~RangesOverlap(r_result.valid_schedules[i],
                              r_result.valid_schedules[j])

\* two back-to-back slots of one date were accepted and a third, overlapping
\* candidate of that date was rejected
C1_Witness ==
    /\ r_done
    /\ Len(r_result.valid_schedules) = 2
    /\ r_result.valid_schedules[1].start_date = r_result.valid_schedules[2].start_date
    /\ r_result.valid_schedules[1].start_time < r_result.valid_schedules[1].end_time
    /\ r_result.valid_schedules[1].end_time = r_result.valid_schedules[2].start_time
    /\ r_result.valid_schedules[2].start_time < r_result.valid_schedules[2].end_time
    /\ Len(r_result.conflicted_schedules) = 1
    /\ r_result.conflicted_schedules[1].reason = ReasonTimeConflict

\* C2: the resolver puts every candidate into exactly one of valid and
\* conflicted: the lengths add up, and every candidate occurs in the two lists
\* together as often as in the input.
C2_EveryCandidateOnce ==
    r_done =>
        /\ Len(r_result.valid_schedules) + Len(r_result.conflicted_schedules)
              = Len(r_candidates)
        /\ LET rejected == [k \in 1..Len(r_result.conflicted_schedules) |->
                               StripReason(r_result.conflicted_schedules[k])]
               all == r_candidates \o r_result.valid_schedules \o rejected
           IN  \A k \in 1..Len(all) :
                  Count(all[k], r_candidates)
                     = Count(all[k], r_result.valid_schedules)
                       + Count(all[k], rejected)

\* three candidates: one accepted, one rejected for its dates and one for a
\* time conflict
C2_Witness ==
    /\ r_done
    /\ Len(r_candidates) = 3
    /\ Len(r_result.valid_schedules) = 1
    /\ \E k \in 1..2 : r_result.conflicted_schedules[k].reason = ReasonEndDate
    /\ \E k \in 1..2 : r_result.conflicted_schedules[k].reason = ReasonTimeConflict

\* C3: a create_course call whose name is the name of a committed course ends
\* at the name check with an error, has inserted nothing, and leaves the course
\* and schedule tables as they were.
C3_DuplicateNamePersistsNothing ==
    [][\A c \in Calls :
          (/\ call[c].pc = "idle"
           /\ call'[c].pc # "idle"
           /\ \E row \in course : row.name = call'[c].course_data.name)
          => /\ call'[c].pc = "done"
             /\ call'[c].response.status_code >= 400
             /\ call'[c].course_id = 0
             /\ call'[c].inserted_schedule_ids = <<>>
             /\ session'[c] = EmptySession
             /\ course' = course
             /\ schedule_course' = schedule_course]_vars

\* a call was refused for its name while the course of that name, with its
\* schedules, is committed
C3_Witness ==
    \E c \in Calls :
        /\ call[c].pc = "done"
        /\ Cause(c) = DetailDuplicate
        /\ \E row \in course : row.name = call[c].course_data.name
        /\ Cardinality(course) = 1
        /\ schedule_course # {}

\* C4: of the create_course calls that carry one name, at most one succeeds,
\* and the course table never holds two rows of one name.
C4_OneCoursePerName ==
    /\ \A c1, c2 \in Calls :
          (/\ c1 # c2
           /\ call[c1].course_data.name = call[c2].course_data.name
           /\ call[c1].response.status_code = 200)
          => call[c2].response.status_code # 200
    /\ \A r1, r2 \in course : r1.name = r2.name => r1 = r2

\* both calls passed the name check with the same name; one committed and the
\* other met the unique constraint at its insert
C4_Witness ==
    \E c1, c2 \in Calls :
        /\ c1 # c2
        /\ call[c1].course_data.name = call[c2].course_data.name
        /\ call[c1].response.status_code = 200
        /\ call[c2].pc = "done"
        /\ Cause(c2) = DetailUniqueName

\* C5: create_course is all-or-nothing. A call that ended with an error has
\* no committed course row and no committed schedule row; every committed row
\* was inserted by a call that returned 200; and a call that returned 200 has
\* its course row and all its schedule rows committed.
C5_AllOrNothing ==
    /\ \A c \in Calls :
          (call[c].pc = "done" /\ call[c].response.status_code # 200)
          => /\ ~CoursePersisted(c)
             /\ ~SchedulesPersisted(c)
             /\ \A row \in schedule_course :
                   \A k \in 1..Len(call[c].inserted_schedule_ids) :
                       row.id # call[c].inserted_schedule_ids[k]
    /\ \A row \in course :
          \E c \in Calls : /\ call[c].response.status_code = 200
                           /\ call[c].course_id = row.id
    /\ \A row \in schedule_course :
          \E c \in Calls :
              /\ call[c].response.status_code = 200
              /\ call[c].course_id = row.course_id
              /\ \E k \in 1..Len(call[c].inserted_schedule_ids) :
                    call[c].inserted_schedule_ids[k] = row.id
    /\ \A c \in Calls :
          call[c].response.status_code = 200
          => /\ CoursePersisted(c)
             /\ \A k \in 1..Len(call[c].inserted_schedule_ids) :
                   \E row \in schedule_course :
                       row.id = call[c].inserted_schedule_ids[k]

\* a call failed at the store after it had inserted its course and a schedule
C5_Witness ==
    \E c \in Calls :
        /\ call[c].pc = "done"
        /\ Cause(c) = DetailStorage
        /\ call[c].course_id # 0
        /\ call[c].inserted_schedule_ids # <<>>

\* C6 as claimed: after a failed reminder-scheduling call the course and its
\* schedules stay persisted and the call reports persistence success.
C6_NotifyFailureKeepsCourse ==
    \A c \in Calls :
        (/\ call[c].pc = "done"
         /\ call[c].notification_response.posted
         /\ call[c].notification_response.status_code # 200)
        => /\ call[c].response.status_code = 200
           /\ CoursePersisted(c)
           /\ SchedulesPersisted(c)

\* C6 amended: once the reminder-scheduling call has failed (no response, or a
\* status other than 200) the call is over with a 500 response, and neither
\* its course nor any of its schedules is committed.
C6_NotifyFailureAborts ==
    \A c \in Calls :
        (/\ call[c].notification_response.posted
         /\ call[c].notification_response.status_code # 200)
        => /\ call[c].pc = "done"
           /\ call[c].response.status_code = 500
           /\ ~CoursePersisted(c)
           /\ ~SchedulesPersisted(c)

\* the notification service answered 500 to a call that had inserted its
\* course and two schedules
C6_Witness ==
    \E c \in Calls :
        /\ call[c].notification_response.posted
        /\ call[c].notification_response.status_code = 500
        /\ call[c].course_id # 0
        /\ Len(call[c].inserted_schedule_ids) = 2

\* C7 as claimed: a schedule insert that violates unique_course_time does not
\* abort the batch: the call goes on, that schedule alone is moved to
\* conflicted_schedules, and what the call has inserted so far stays inserted.
C7_UniqueViolationKeepsBatch ==
    [][\A c \in Calls :
          (/\ call[c].pc = "insert_schedule"
           /\ call'[c] # call[c]
           /\ schedule_id_seq' # schedule_id_seq
           /\ \E row \in session[c].schedule_course :
                 LET s == call[c].valid_schedules[Len(call[c].inserted_schedule_ids) + 1]
                 IN  row.start_date = s.start_date /\ row.start_time = s.start_time)
          => /\ call'[c].pc # "done"
             /\ session'[c] = session[c]
             /\ Len(call'[c].conflicted_schedules)
                   = Len(call[c].conflicted_schedules) + 1]_vars

\* C8 as claimed: a call with a fresh name whose candidates are all rejected
\* (or that has none) still gets the structured result with the rejected
\* candidates and their reasons.
C8_NoValidStillStructured ==
    \A c \in Calls :
        (/\ call[c].pc = "done"
         /\ call[c].resolved
         /\ call[c].valid_schedules = <<>>)
        => /\ call[c].response.status_code = 200
           /\ call[c].response.body.message = MsgProcessed
           /\ call[c].response.body.conflicted_schedules
                 = call[c].conflicted_schedules

\* C8 amended: a call with a fresh name whose candidates are all rejected (or
\* that has none) ends at once with an error response and not with the
\* structured result, and nothing is inserted or committed for it.
C8_NoValidIsAnError ==
    [][\A c \in Calls :
          (/\ call[c].pc = "idle"
           /\ call'[c].pc # "idle"
           /\ \A row \in course : row.name # call'[c].course_data.name
           /\ Resolve(call'[c].schedule_data).valid_schedules = <<>>)
          => /\ call'[c].pc = "done"
             /\ call'[c].response.status_code >= 400
             /\ call'[c].response.body = EmptyBody
             /\ call'[c].course_id = 0
             /\ session'[c] = EmptySession
             /\ course' = course
             /\ schedule_course' = schedule_course]_vars

\* a call with a fresh name had two candidates, both rejected for their dates,
\* and was refused for having no valid schedule
C8_Witness ==
    \E c \in Calls :
        /\ call[c].pc = "done"
        /\ Cause(c) = DetailNoValid
        /\ Len(call[c].schedule_data) = 2
        /\ Len(call[c].conflicted_schedules) = 2
        /\ call[c].response.status_code >= 400

\* C9 as claimed: a call whose name is the name of a committed course, and
\* that meets no storage failure, is answered with status 400.
C9_DuplicateNameIs400 ==
    [][\A c \in Calls :
          (/\ call[c].pc = "idle"
           /\ call'[c].pc # "idle"
           /\ \E row \in course : row.name = call'[c].course_data.name
           /\ call'[c].response.detail # <<"Unexpected error", DetailStorage>>)
          => call'[c].response.status_code = 400]_vars

\* the schedule rows that are committed or inserted in an open transaction
AllScheduleRows ==
    schedule_course \cup UNION {session[c].schedule_course : c \in Calls}

\* C10: once the resolver has run, every candidate with end_date < start_date
\* is in conflicted_schedules with the end-date reason and none is in
\* valid_schedules; occupied_intervals holds one interval per accepted
\* schedule and nothing else; and no schedule row, committed or inserted, has
\* end_date < start_date.
C10_InvalidDateRangeRejected ==
    /\ \A c \in Calls :
          call[c].resolved =>
             /\ \A i \in 1..Len(call[c].schedule_data) :
                   LET x == call[c].schedule_data[i] IN
                   x.end_date < x.start_date
                   => Count(x, call[c].schedule_data)
                        = Count(WithReason(x, ReasonEndDate),
                                call[c].conflicted_schedules)
             /\ \A k \in 1..Len(call[c].valid_schedules) :
                   call[c].valid_schedules[k].end_date
                      >= call[c].valid_schedules[k].start_date
             /\ \A d \in DOMAIN call[c].occupied_intervals :
                   Len(call[c].occupied_intervals[d])
                      = Cardinality({k \in 1..Len(call[c].valid_schedules) :
                                        call[c].valid_schedules[k].start_date = d})
    /\ \A row \in AllScheduleRows : row.end_date >= row.start_date

\* a call whose second candidate has end_date < start_date, after an accepted
\* one of the same start_date, has committed its schedules
C10_Witness ==
    \E c \in Calls :
        /\ call[c].response.status_code = 200
        /\ Len(call[c].schedule_data) = 2
        /\ call[c].schedule_data[2].end_date < call[c].schedule_data[2].start_date
        /\ call[c].schedule_data[1].start_date = call[c].schedule_data[2].start_date
        /\ Len(call[c].valid_schedules) = 1
        /\ schedule_course # {}

\* the conflict of two candidates as the specification words it: the same
\* start_date, and each starts before the other ends
CandidatesConflict(a, b) ==
    /\ a.start_date = b.start_date
    /\ a.start_time < b.end_time
    /\ a.end_time > b.start_time

\* the candidates of seq whose start_date is d, in order
RECURSIVE OnDate(_, _)
OnDate(seq, d) ==
    IF seq = <<>> THEN <<>>
    ELSE IF Head(seq).start_date = d
         THEN <<Head(seq)>> \o OnDate(Tail(seq), d)
         ELSE OnDate(Tail(seq), d)

\* C11: the resolver is first-come-first-accepted: of two candidates with
\* valid date ranges that conflict with each other, submitted as a list of
\* two, the first is the only accepted one and the second the only rejected
\* one, whichever of the two comes first.
C11_FirstComeFirstAccepted ==
    (/\ r_done
     /\ Len(r_candidates) = 2
     /\ r_candidates[1].end_date >= r_candidates[1].start_date
     /\ r_candidates[2].end_date >= r_candidates[2].start_date
     /\ \/ CandidatesConflict(r_candidates[1], r_candidates[2])
        \/ CandidatesConflict(r_candidates[2], r_candidates[1]))
    => /\ r_result.valid_schedules = <<r_candidates[1]>>
       /\ Len(r_result.conflicted_schedules) = 1
       /\ StripReason(r_result.conflicted_schedules[1]) = r_candidates[2]
       /\ r_result.conflicted_schedules[1].reason = ReasonTimeConflict

\* two different conflicting candidates, the later-starting one first: it is
\* the accepted one
C11_Witness ==
    /\ r_done
    /\ Len(r_candidates) = 2
    /\ r_candidates[1] # r_candidates[2]
    /\ r_candidates[1].start_time > r_candidates[2].start_time
    /\ r_candidates[1].end_date >= r_candidates[1].start_date
    /\ r_candidates[2].end_date >= r_candidates[2].start_date
    /\ CandidatesConflict(r_candidates[1], r_candidates[2])
    /\ r_result.valid_schedules = <<r_candidates[1]>>

\* C12: two candidates of one start_date with valid date ranges, where one
\* ends at the time the other starts, submitted as a list of two in either
\* order, are both accepted.
C12_BackToBackAccepted ==
    (/\ r_done
     /\ Len(r_candidates) = 2
     /\ r_candidates[1].end_date >= r_candidates[1].start_date
     /\ r_candidates[2].end_date >= r_candidates[2].start_date
     /\ r_candidates[1].start_date = r_candidates[2].start_date
     /\ \/ r_candidates[1].end_time = r_candidates[2].start_time
        \/ r_candidates[2].end_time = r_candidates[1].start_time)
    => /\ r_result.valid_schedules = r_candidates
       /\ r_result.conflicted_schedules = <<>>

\* the later of two back-to-back slots of positive length was submitted first
C12_Witness ==
    /\ r_done
    /\ Len(r_candidates) = 2
    /\ r_candidates[1].start_date = r_candidates[2].start_date
    /\ r_candidates[1].end_date >= r_candidates[1].start_date
    /\ r_candidates[2].end_date >= r_candidates[2].start_date
    /\ r_candidates[2].start_time < r_candidates[2].end_time
    /\ r_candidates[2].end_time = r_candidates[1].start_time
    /\ r_candidates[1].start_time < r_candidates[1].end_time
    /\ Len(r_result.valid_schedules) = 2

\* C13: a time-conflict rejection is caused by an accepted candidate of the
\* same start_date, and candidates of other start_dates have no part in it:
\* every candidate rejected for a time conflict conflicts with an accepted one
\* of its start_date, and for each date the accepted and the rejected
\* candidates of that date are what the resolver gives for the candidates of
\* that date alone.
C13_OnlySameStartDateConflicts ==
    r_done =>
        /\ \A k \in 1..Len(r_result.conflicted_schedules) :
              r_result.conflicted_schedules[k].reason = ReasonTimeConflict
              => \E j \in 1..Len(r_result.valid_schedules) :
                    CandidatesConflict(r_result.conflicted_schedules[k],
                                       r_result.valid_schedules[j])
        /\ \A d \in Dates :
              LET alone == Resolve(OnDate(r_candidates, d))
              IN  /\ alone.valid_schedules = OnDate(r_result.valid_schedules, d)
                  /\ alone.conflicted_schedules
                        = OnDate(r_result.conflicted_schedules, d)

\* three candidates with overlapping date ranges and the same hours on two
\* start_dates: the one of the other start_date is accepted, the second of the
\* same start_date is rejected
C13_Witness ==
    /\ r_done
    /\ Len(r_candidates) = 3
    /\ r_candidates[1].start_date < r_candidates[2].start_date
    /\ r_candidates[1].end_date >= r_candidates[2].start_date
    /\ r_candidates[2].end_date >= r_candidates[2].start_date
    /\ r_candidates[3] = r_candidates[1]
    /\ r_candidates[1].start_time = r_candidates[2].start_time
    /\ r_candidates[1].end_time = r_candidates[2].end_time
    /\ r_candidates[1].start_time < r_candidates[1].end_time
    /\ r_result.valid_schedules = <<r_candidates[1], r_candidates[2]>>
    /\ Len(r_result.conflicted_schedules) = 1
    /\ r_result.conflicted_schedules[1].reason = ReasonTimeConflict

\* hours since the start of day 0, of a schedule's start and of a fire time
StartHours(row) == row.start_date * 24 + row.start_time
EtaHours(eta) == eta.date * 24 + eta.hour

\* the queued jobs that carry a course id
JobsOfCourse(course_id) ==
    SelectSeq(task_queue, LAMBDA queued : queued.args[2] = course_id)

\* create_course has answered 200
Succeeded(c) == call[c].pc = "done" /\ call[c].response.status_code = 200

\* C14: after a successful create_course that persisted k schedules, the queue
\* holds exactly k jobs of that course, one for each persisted schedule id,
\* each of type tasks.send_message_task with payload (schedule_id, course_id)
\* and a fire time that belongs to the start of the schedule whose id it
\* carries.
C14_OneJobPerSchedule ==
    \A c \in Calls :
        Succeeded(c) =>
            LET jobs == JobsOfCourse(call[c].course_id)
                rows == {row \in schedule_course :
                            row.course_id = call[c].course_id}
            IN  /\ Cardinality(rows) = Len(call[c].inserted_schedule_ids)
                /\ Len(jobs) = Cardinality(rows)
                /\ \A row \in rows :
                      \E k \in 1..Len(jobs) :
                          /\ jobs[k].task = "tasks.send_message_task"
                          /\ jobs[k].args = <<row.id, row.course_id>>
                          /\ EtaHours(jobs[k].eta) + ReminderLeadHours
                                = StartHours(row)
                          /\ \A j \in 1..Len(jobs) :
                                jobs[j].args[1] = row.id => j = k

\* a course was created with two schedules that start at different hours
C14_Witness ==
    \E c \in Calls :
        /\ Succeeded(c)
        /\ Len(call[c].inserted_schedule_ids) = 2
        /\ Len(JobsOfCourse(call[c].course_id)) = 2
        /\ \E r1, r2 \in schedule_course :
              /\ r1.course_id = call[c].course_id
              /\ r2.course_id = call[c].course_id
              /\ r1.start_time # r2.start_time

\* C15: the fire time of every job is the start of its schedule (start_date
\* and start_time, at UTC+05:00) minus exactly one hour: the same offset, an
\* hour of the day, and 1 hour before the start on the time line.
C15_FireTimeOneHourBefore ==
    \A k \in 1..Len(task_queue) :
        \A row \in AllScheduleRows :
            row.id = task_queue[k].args[1] =>
                /\ task_queue[k].eta.utcoffset = 5
                /\ task_queue[k].eta.hour \in 0..23
                /\ EtaHours(task_queue[k].eta) = StartHours(row) - 1

\* a job of a schedule that starts at midnight fires at 23:00 of the day
\* before, and a job of a schedule that starts at 03:00 fires at 02:00
C15_Witness ==
    /\ \E k \in 1..Len(task_queue) :
          \E row \in schedule_course :
              /\ row.id = task_queue[k].args[1]
              /\ row.start_time = 0
              /\ task_queue[k].eta.hour = 23
              /\ task_queue[k].eta.date = row.start_date - 1
    /\ \E k \in 1..Len(task_queue) :
          \E row \in schedule_course :
              /\ row.id = task_queue[k].args[1]
              /\ row.start_time = 3
              /\ task_queue[k].eta.hour = 2
              /\ task_queue[k].eta.date = row.start_date

\* C16: the enqueue attempts of the reminder scheduler are independent: when
\* the scheduler was reached with n schedules and enqueueing one job failed
\* (it answered 500), the other n - 1 jobs are in the queue.
C16_EnqueueIndependent ==
    \A c \in Calls :
        (/\ call[c].notification_response.posted
         /\ call[c].notification_response.status_code = 500)
        => Len(JobsOfCourse(call[c].course_id))
              >= Len(call[c].inserted_schedule_ids) - 1

\* C20: no two persisted schedule rows of one course have the same
\* (start_date, start_time).
C20_UniqueCourseTimeHolds ==
    \A r1, r2 \in schedule_course :
        (/\ r1.course_id = r2.course_id
         /\ r1.start_date = r2.start_date
         /\ r1.start_time = r2.start_time)
        => r1 = r2

\* one course is persisted with two schedules of one start_date, and a request
\* with the same slot twice was stopped by the constraint
C20_Witness ==
    /\ \E r1, r2 \in schedule_course :
          /\ r1.course_id = r2.course_id
          /\ r1.start_date = r2.start_date
          /\ r1.id # r2.id
    /\ \E c \in Calls :
          /\ call[c].pc = "done"
          /\ Cause(c) = DetailUniqueTime

\* C17: in the reminder worker a delivery failure for one user does not stop
\* the delivery to the remaining users: a job that got its list of users has,
\* when it ends, tried every user of the list.
C17_DeliveryFailureIsolated ==
    (job.pc = "done" /\ job.users_asked /\ job.logged # ErrRequest)
    => Len(job.attempts) = Len(job.users)

\* C18: the result a job reports is success unless the course lookup or the
\* lookup of the enrolled users failed, and then it is a failure that carries
\* the cause.
C18_ResultTellsLookupFailure ==
    job.pc = "done" =>
        IF job.logged \in {ErrRequest, ErrIndex}
        THEN job.result = MsgTaskFailed(job.schedule_id, job.logged)
        ELSE job.result = MsgTaskSent(job.schedule_id)

\* C19: a job that starts after its course was deleted comes to an end, with
\* no exception leaving the task and no notification delivered: it ends at the
\* course lookup, with the error logged, without asking for the users and
\* without a send attempt, and the task returns its string.
C19_JobOfDeletedCourseEndsQuietly ==
    /\ []((job.pc = "done" /\ job.gone_at_start) =>
            /\ ~job.escaped
            /\ job.result = MsgTaskSent(job.schedule_id)
            /\ job.logged \in {ErrRequest, ErrIndex}
            /\ ~job.users_asked
            /\ job.attempts = <<>>
            /\ job.delivered = <<>>)
    /\ ((job.pc \in {"course", "users", "deliver"} /\ job.gone_at_start)
           ~> (job.pc = "done" /\ job.delivered = <<>>))

\* the course was deleted, then its job ran and ended on the empty answer of
\* the course lookup
C19_Witness ==
    /\ course = {}
    /\ schedule_course = {}
    /\ job.pc = "done"
    /\ job.gone_at_start
    /\ job.course_id = 1
    /\ job.logged = ErrIndex

\* C28: any two candidates the resolver accepts in one call differ in
\* (start_date, start_time), for every candidate list, those with an end_time
\* equal to or earlier than the start_time included.
C28_AcceptedDifferInStart ==
    r_done =>
        \A i, j \in 1..Len(r_result.valid_schedules) :
            i < j =>
                \/ r_result.valid_schedules[i].start_date
                      # r_result.valid_schedules[j].start_date
                \/ r_result.valid_schedules[i].start_time
                      # r_result.valid_schedules[j].start_time

\* C30: the resolver is idempotent on its own output: given the valid list it
\* produced, in the same order, it accepts every element, rejects none and
\* yields the same valid list.
C30_ResolverIdempotent ==
    r_done =>
        LET again == Resolve(r_result.valid_schedules)
        IN  /\ again.valid_schedules = r_result.valid_schedules
            /\ again.conflicted_schedules = <<>>

\* a list of which the resolver accepted two candidates of one start_date and
\* rejected one for a time conflict and one for its dates
C30_Witness ==
    /\ r_done
    /\ Len(r_result.valid_schedules) = 2
    /\ r_result.valid_schedules[1].start_date
          = r_result.valid_schedules[2].start_date
    /\ \E k \in 1..Len(r_result.conflicted_schedules) :
          r_result.conflicted_schedules[k].reason = ReasonTimeConflict
    /\ Resolve(r_result.valid_schedules).valid_schedules
          = r_result.valid_schedules

\* C21 as stated: every create_course call with a fresh name and at least one
\* acceptable candidate responds with the success message.
C21_FreshNameAlwaysSucceeds ==
    \A c \in Calls :
        (/\ call[c].pc = "done"
         /\ call[c].resolved
         /\ call[c].valid_schedules # <<>>
         /\ Cause(c) # DetailDuplicate)
        => /\ call[c].response.status_code = 200
           /\ call[c].response.body.message = MsgProcessed

\* C21: a create_course call with a fresh name and an acceptable candidate ends
\* with an error (400 or 500) and no row of its own persisted, or with 200. A
\* call that answers 200 carries the success message, and its course_id and
\* schedule_ids identify exactly the rows it persisted: there are as many
\* schedule_ids as valid schedules (at least one), the schedule rows of the
\* course are the valid schedules under those ids, in order, and
\* get_course_by_id(course_id) returns a non-empty list whose first element has
\* that id and the requested name.
C21_SuccessIdentifiesRows ==
    \A c \in Calls :
      /\ (call[c].pc = "done" /\ call[c].response.status_code # 200) =>
            /\ call[c].response.status_code \in {400, 500}
            /\ call[c].course_id # 0 =>
                  /\ GetCourseById(call[c].course_id) = <<>>
                  /\ \A row \in schedule_course :
                        row.course_id # call[c].course_id
      /\ Succeeded(c) =>
            LET body == call[c].response.body
                rows == {row \in schedule_course : row.course_id = body.course_id}
            IN  /\ body.message = MsgProcessed
                /\ Len(body.schedule_ids) = Len(body.valid_schedules)
                /\ Len(body.valid_schedules) >= 1
                /\ rows = {ScheduleRow(body.schedule_ids[k], body.course_id,
                                       body.valid_schedules[k]) :
                              k \in 1..Len(body.schedule_ids)}
                /\ Cardinality(rows) = Len(body.schedule_ids)
                /\ GetCourseById(body.course_id) # <<>>
                /\ GetCourseById(body.course_id)[1].id = body.course_id
                /\ GetCourseById(body.course_id)[1].name
                      = call[c].course_data.name

\* both calls succeeded, one with two schedules, the other with one schedule
\* and a rejected candidate
C21_Witness ==
    /\ \A c \in Calls : Succeeded(c)
    /\ \E c \in Calls : Len(call[c].response.body.schedule_ids) = 2
    /\ \E c \in Calls :
          /\ Len(call[c].response.body.schedule_ids) = 1
          /\ call[c].response.body.conflicted_schedules # <<>>

\* the schedules of a course, and the enrollments that refer to the course or
\* to one of its schedules
SchedulesOf(course_id) == {row \in schedule_course : row.course_id = course_id}
EnrollmentsOn(course_id) ==
    {e \in enroll_course :
        \/ e.course_id = course_id
        \/ \E row \in SchedulesOf(course_id) : row.id = e.schedule_id}

\* C22: a delete_course(course_id) on a course that no enrollment refers to
\* answers with a success status, after it get_course_by_id(course_id) returns
\* the empty list, and all other courses, with their schedules, and all
\* enrollments are as before.
C22_DeleteCourseFrame ==
    [][\A course_id \in CourseIds :
          (DeleteCourse(course_id) /\ EnrollmentsOn(course_id) = {})
          => /\ DeleteCourseResponse(course_id) = 200
             /\ ~\E row \in course' : row.id = course_id
             /\ {row \in course' : row.id # course_id}
                   = {row \in course : row.id # course_id}
             /\ {row \in schedule_course' : row.course_id # course_id}
                   = {row \in schedule_course : row.course_id # course_id}
             /\ enroll_course' = enroll_course]_vars

\* the first course was deleted after a second one had been created, which is
\* still there with its schedules and an enrollment
C22_Witness ==
    /\ GetCourseById(1) = <<>>
    /\ SchedulesOf(1) = {}
    /\ GetCourseById(2) # <<>>
    /\ SchedulesOf(2) # {}
    /\ EnrollmentsOn(2) # {}

\* the days on which get_enroll may be asked
Today == 0..3

C24_DeleteEnrollFrame ==
    [][\A enroll_id \in 1..MaxEnroll :
          DeleteEnroll(enroll_id)
          => /\ \A u \in Users, today \in Today :
                   \A e \in GetEnroll(u, today)' : e.id # enroll_id
             /\ ~\E e \in enroll_course' : e.id = enroll_id
             /\ {e \in enroll_course' : e.id # enroll_id}
                   = {e \in enroll_course : e.id # enroll_id}
             /\ \A u \in Users, today \in Today :
                   GetEnroll(u, today)'
                      = {e \in GetEnroll(u, today) : e.id # enroll_id}
             /\ course' = course
             /\ schedule_course' = schedule_course]_vars

\* of two enrollments of one user the first is gone and the second is still
\* listed
C24_Witness ==
    /\ enroll_deleted = {1}
    /\ ~\E e \in enroll_course : e.id = 1
    /\ \E e \in GetEnroll(1, 0) : e.id = 2

\* C25: when all lookups and deliveries of a job succeed, it delivers exactly
\* one notification to each distinct user of the list of enrolled users it got
\* for its schedule, and none to any other user.
C25_OncePerDistinctUser ==
    (job.pc = "done" /\ job.users_asked /\ job.logged = NoError)
    => \A u \in Users :
          Cardinality({k \in 1..Len(job.delivered) : job.delivered[k][1] = u})
             = IF \E k \in 1..Len(job.users) : job.users[k] = u THEN 1 ELSE 0

\* C26: a user never ends up with two enrollments for the same course through
\* finalize_enrollment, also when two confirm callbacks of the user for the
\* course are handled at the same time (every callback having received the
\* list of the user's enrollments for its duplicate check).
C26_NoDuplicateEnrollment ==
    (\A h \in Handlers : confirm[h].pc = "idle" \/ confirm[h].fetched)
    => \A e1, e2 \in enroll_course :
          (e1.user_id = e2.user_id /\ e1.course_id = e2.course_id) => e1 = e2

\* C27: every reminder job in the queue refers to a course and a schedule that
\* a successful create_course committed: once no call is under way, the
\* course and the schedule of every queued job are persisted, and no job is
\* left of a call that failed.
C27_JobsOnlyOfCommittedCourses ==
    (\A c \in Calls : call[c].pc \in {"idle", "done"})
    => /\ \A k \in 1..Len(task_queue) :
             /\ \E row \in course : row.id = task_queue[k].args[2]
             /\ \E row \in schedule_course :
                   /\ row.id = task_queue[k].args[1]
                   /\ row.course_id = task_queue[k].args[2]
       /\ \A c \in Calls :
             (call[c].pc = "done" /\ call[c].response.status_code # 200)
             => \/ call[c].course_id = 0
                \/ JobsOfCourse(call[c].course_id) = <<>>

\* C29: in every state every persisted schedule refers to an existing course
\* and every enrollment to an existing course and an existing schedule; a
\* delete_course removes the course with all of its schedules, and a
\* delete_course of a course that an enrollment refers to (directly or through
\* one of its schedules) fails and leaves courses, schedules and enrollments
\* unchanged.
C29_ReferencesExist ==
    /\ [](/\ \A s \in schedule_course : \E row \in course : row.id = s.course_id
          /\ \A e \in enroll_course :
                /\ \E row \in course : row.id = e.course_id
                /\ \E s \in schedule_course : s.id = e.schedule_id)
    /\ [][\A course_id \in CourseIds :
             DeleteCourse(course_id)
             => IF EnrollmentsOn(course_id) # {}
                THEN /\ DeleteCourseResponse(course_id) = 500
                     /\ course' = course
                     /\ schedule_course' = schedule_course
                     /\ enroll_course' = enroll_course
                ELSE /\ ~\E row \in course' : row.id = course_id
                     /\ ~\E s \in schedule_course' : s.course_id = course_id]_vars

\* a second course was created and deleted again with its schedules, while the
\* first course is held by an enrollment, after another enrollment was removed
C29_Witness ==
    /\ Succeeded(1)
    /\ call[1].course_id = 2
    /\ GetCourseById(2) = <<>>
    /\ SchedulesOf(2) = {}
    /\ GetCourseById(1) # <<>>
    /\ \E e \in enroll_course : e.course_id = 1
    /\ enroll_deleted # {}

====
